---------------------------- MODULE Spec2Model ----------------------------
(***************************************************************************)
(* The EEP (EnOcean Equipment Profile) interpreter of                      *)
(* custom_components/enocean_custom/enocean/enocean/protocol/eep.py:       *)
(* the profile registry, find_profile, the bit codec (_get_raw, _set_raw)  *)
(* and the value transcoder (get_values, set_values).                      *)
(*                                                                         *)
(* Conventions.                                                            *)
(*  - A Python list of bools is a sequence of BOOLEAN; Python index i is   *)
(*    TLA+ index i + 1.                                                    *)
(*  - An optional value (None or x) is the sequence << >> or <<x>>.        *)
(*  - XML attribute text is a sequence of one-character strings; '%s' % n  *)
(*    is Str(n) and int(text) is ParseInt(text).                           *)
(*  - A Python float is an exact rational <<numerator, denominator>>.      *)
(*  - An operation that raises returns a record whose err names the        *)
(*    exception ("" when it returns normally).                             *)
(***************************************************************************)
EXTENDS Integers, Sequences, FiniteSets, TLC

VARIABLES
    init_ok,    \* EEP.init_ok
    telegrams,  \* EEP.telegrams: rorg -> func -> type -> profile element
    profile,    \* the caller's data description, as find_profile returned it
    data,       \* the caller's data bit list, mutated in place by set_values
    status,     \* the caller's status bit list, mutated in place by set_values
    call        \* the last call: its name, arguments, lists before it, result

vars == <<init_ok, telegrams, profile, data, status, call>>

(***************************************************************************)
(* Bounds of the model.                                                    *)
(***************************************************************************)
BitLen == 4        \* length of the bit lists of the codec specification
MaxSize == 3       \* largest field size of the codec specification

(***************************************************************************)
(* Text <-> integer conversions.                                           *)
(***************************************************************************)
DigitChars == <<"0", "1", "2", "3", "4", "5", "6", "7", "8", "9">>

RECURSIVE NatStr(_)
NatStr(n) ==
    IF n < 10 THEN <<DigitChars[n + 1]>>
    ELSE NatStr(n \div 10) \o <<DigitChars[(n % 10) + 1]>>

\* '%s' % n for an integer n
Str(n) == IF n < 0 THEN <<"-">> \o NatStr(-n) ELSE NatStr(n)

DigitVals == [c \in {DigitChars[i] : i \in 1..10} |->
                (CHOOSE i \in 1..10 : DigitChars[i] = c) - 1]

DigitVal(c) == DigitVals[c]

RECURSIVE ParseNat(_)
ParseNat(s) ==
    IF s = << >> THEN 0
    ELSE 10 * ParseNat(SubSeq(s, 1, Len(s) - 1)) + DigitVal(s[Len(s)])

\* int(text) for decimal text
ParseInt(s) == IF s[1] = "-" THEN -ParseNat(Tail(s)) ELSE ParseNat(s)

RECURSIVE Pow2(_)
Pow2(k) == IF k = 0 THEN 1 ELSE 2 * Pow2(k - 1)

Min(a, b) == IF a < b THEN a ELSE b

(***************************************************************************)
(* Bit codec.                                                              *)
(***************************************************************************)
\* bitarray[lo:hi] for 0 <= lo, 0 <= hi: Python cuts the slice at the end of
\* the list instead of raising
Slice(bitarray, lo, hi) == SubSeq(bitarray, lo + 1, Min(hi, Len(bitarray)))

\* int(text, 2) for a non-empty text of '0' and '1'
RECURSIVE IntBase2(_)
IntBase2(s) ==
    IF s = << >> THEN 0
    ELSE 2 * IntBase2(SubSeq(s, 1, Len(s) - 1)) + (IF s[Len(s)] = "1" THEN 1 ELSE 0)

_get_raw(source, bitarray) ==
    LET offset == ParseInt(source.offset)
        size == ParseInt(source.size)
        bits == Slice(bitarray, offset, offset + size)
        text == [i \in 1..Len(bits) |-> IF bits[i] THEN "1" ELSE "0"]
    IN  IF text = << >>
        THEN [err |-> "ValueError", val |-> 0]      \* int('', 2)
        ELSE [err |-> "", val |-> IntBase2(text)]

\* (raw_value >> k) & 0x01 != 0, Python's arithmetic shift
ShiftBit(raw_value, k) == ((raw_value \div Pow2(k)) % 2) # 0

\* the for loop of _set_raw from index digit on: the list is written in
\* place, so an IndexError leaves the bits already written
RECURSIVE SetRawLoop(_, _, _, _, _)
SetRawLoop(bitarray, offset, size, raw_value, digit) ==
    IF digit >= size THEN [err |-> "", bits |-> bitarray]
    ELSE IF offset + digit >= Len(bitarray)
    THEN [err |-> "IndexError", bits |-> bitarray]
    ELSE SetRawLoop(
            [bitarray EXCEPT ![offset + digit + 1] = ShiftBit(raw_value, size - digit - 1)],
            offset, size, raw_value, digit + 1)

\* _set_raw with the shift one too far: raw_value >> (size - digit)
set_raw_shifted(target, raw_value, bitarray) ==
    SetRawLoop(bitarray, ParseInt(target.offset), ParseInt(target.size),
               raw_value \div 2, 0)

_set_raw(target, raw_value, bitarray) ==
    SetRawLoop(bitarray, ParseInt(target.offset), ParseInt(target.size), raw_value, 0)

(***************************************************************************)
(* Exact arithmetic standing for Python's float arithmetic.                *)
(***************************************************************************)
Abs(n) == IF n < 0 THEN -n ELSE n

RECURSIVE GCD(_, _)
GCD(a, b) == IF b = 0 THEN a ELSE GCD(b, a % b)

\* the rational n/d (d # 0) in lowest terms with a positive denominator
Rat(n, d) ==
    LET g == GCD(Abs(n), Abs(d))
        s == IF d < 0 THEN -1 ELSE 1
    IN  <<(s * n) \div g, (s * d) \div g>>

RatSub(p, q) == Rat(p[1] * q[2] - q[1] * p[2], p[2] * q[2])
RatAdd(p, q) == Rat(p[1] * q[2] + q[1] * p[2], p[2] * q[2])
RatMul(p, q) == Rat(p[1] * q[1], p[2] * q[2])
\* p / q for q # 0
RatDiv(p, q) == Rat(p[1] * q[2], p[2] * q[1])

\* float(text) for the text of an integer
ToFloat(text) == <<ParseInt(text), 1>>

\* int(x) for a float x: truncation towards zero
Trunc(x) == IF x[1] >= 0 THEN x[1] \div x[2] ELSE -((-x[1]) \div x[2])

(***************************************************************************)
(* Element tree queries (xml.etree.ElementTree).                           *)
(***************************************************************************)
\* element.find(path): the first element of seq, in document order, that
\* passes Test; None when there is none
FindFirst(seq, Test(_)) ==
    IF \E i \in 1..Len(seq) : Test(seq[i])
    THEN <<seq[CHOOSE i \in 1..Len(seq) :
                    Test(seq[i]) /\ \A j \in 1..(i - 1) : ~Test(seq[j])]>>
    ELSE << >>

\* int(element.get(name, default)) for an optional attribute
AttrInt(attr, default) == IF attr = << >> THEN default ELSE ParseInt(attr[1])

\* description.format(value=raw_value): each placeholder piece is replaced by
\* the decimal text of the raw value
RECURSIVE Format(_, _)
Format(description, raw_value) ==
    IF description = << >> THEN << >>
    ELSE (IF Head(description) = "{value}" THEN Str(raw_value) ELSE <<Head(description)>>)
         \o Format(Tail(description), raw_value)

(***************************************************************************)
(* Value transcoder.                                                       *)
(***************************************************************************)
\* _get_rangeitem with range(start, end): the end left out
get_rangeitem_open(source, raw_value) ==
    LET InRange(rangeitem) ==
            /\ AttrInt(rangeitem.start, -1) <= raw_value
            /\ raw_value < AttrInt(rangeitem.end, -1)
    IN  FindFirst(source.rangeitems, InRange)

_get_rangeitem(source, raw_value) ==
    LET InRange(rangeitem) ==
            /\ AttrInt(rangeitem.start, -1) <= raw_value
            /\ raw_value < AttrInt(rangeitem.end, -1) + 1
    IN  FindFirst(source.rangeitems, InRange)

NoEntry == [shortcut |-> "", description |-> "", unit |-> "",
            value |-> [type |-> "none"], raw_value |-> 0]

\* _get_value without the scale's minimum added
get_value_unshifted(source, bitarray) ==
    LET raw == _get_raw(source, bitarray)
        rng_min == ToFloat(source.rng_min)
        rng_max == ToFloat(source.rng_max)
        scl_min == ToFloat(source.scl_min)
        scl_max == ToFloat(source.scl_max)
    IN  IF raw.err # "" THEN [err |-> raw.err, entry |-> NoEntry]
        ELSE IF RatSub(rng_max, rng_min)[1] = 0
        THEN [err |-> "ZeroDivisionError", entry |-> NoEntry]
        ELSE [err |-> "",
              entry |-> [shortcut |-> source.shortcut,
                         description |-> source.description,
                         unit |-> source.unit,
                         value |-> [type |-> "float",
                                    float |-> RatMul(RatDiv(RatSub(scl_max, scl_min),
                                                            RatSub(rng_max, rng_min)),
                                                     RatSub(<<raw.val, 1>>, rng_min))],
                         raw_value |-> raw.val]]

_get_value(source, bitarray) ==
    LET raw == _get_raw(source, bitarray)
        rng_min == ToFloat(source.rng_min)
        rng_max == ToFloat(source.rng_max)
        scl_min == ToFloat(source.scl_min)
        scl_max == ToFloat(source.scl_max)
    IN  IF raw.err # "" THEN [err |-> raw.err, entry |-> NoEntry]
        ELSE IF RatSub(rng_max, rng_min)[1] = 0
        THEN [err |-> "ZeroDivisionError", entry |-> NoEntry]
        ELSE [err |-> "",
              entry |-> [shortcut |-> source.shortcut,
                         description |-> source.description,
                         unit |-> source.unit,
                         value |-> [type |-> "float",
                                    float |-> RatAdd(
                                        RatMul(RatDiv(RatSub(scl_max, scl_min),
                                                      RatSub(rng_max, rng_min)),
                                               RatSub(<<raw.val, 1>>, rng_min)),
                                        scl_min)],
                         raw_value |-> raw.val]]

_get_enum(source, bitarray) ==
    LET raw == _get_raw(source, bitarray)
        HasValue(item) == item.value = Str(raw.val)
        item_desc == FindFirst(source.items, HasValue)
        value_desc == IF item_desc = << >> THEN _get_rangeitem(source, raw.val)
                      ELSE item_desc
    IN  IF raw.err # "" THEN [err |-> raw.err, entry |-> NoEntry]
        ELSE IF value_desc = << >>
        THEN [err |-> "AttributeError", entry |-> NoEntry]   \* None.get(...)
        ELSE [err |-> "",
              entry |-> [shortcut |-> source.shortcut,
                         description |-> source.description,
                         unit |-> source.unit,
                         value |-> [type |-> "str",
                                    str |-> Format(value_desc[1].description, raw.val)],
                         raw_value |-> raw.val]]

_get_boolean(source, bitarray) ==
    LET raw == _get_raw(source, bitarray)
    IN  IF raw.err # "" THEN [err |-> raw.err, entry |-> NoEntry]
        ELSE [err |-> "",
              entry |-> [shortcut |-> source.shortcut,
                         description |-> source.description,
                         unit |-> source.unit,
                         value |-> [type |-> "bool", bool |-> (raw.val # 0)],
                         raw_value |-> raw.val]]

\* the float a caller's number stands for in float arithmetic
AsFloat(value) == IF value.type = "int" THEN <<value.int, 1>> ELSE value.float

\* _set_value without the raw range's minimum added
set_value_unshifted(target, value, bitarray) ==
    LET rng_min == ToFloat(target.rng_min)
        rng_max == ToFloat(target.rng_max)
        scl_min == ToFloat(target.scl_min)
        scl_max == ToFloat(target.scl_max)
    IN  IF RatSub(scl_max, scl_min)[1] = 0
        THEN [err |-> "ZeroDivisionError", bits |-> bitarray]
        ELSE LET raw_value ==
                     RatDiv(RatMul(RatSub(AsFloat(value), scl_min),
                                   RatSub(rng_max, rng_min)),
                            RatSub(scl_max, scl_min))
             IN  _set_raw(target, Trunc(raw_value), bitarray)

_set_value(target, value, bitarray) ==
    LET rng_min == ToFloat(target.rng_min)
        rng_max == ToFloat(target.rng_max)
        scl_min == ToFloat(target.scl_min)
        scl_max == ToFloat(target.scl_max)
    IN  IF RatSub(scl_max, scl_min)[1] = 0
        THEN [err |-> "ZeroDivisionError", bits |-> bitarray]
        ELSE LET raw_value ==
                     RatAdd(RatDiv(RatMul(RatSub(AsFloat(value), scl_min),
                                          RatSub(rng_max, rng_min)),
                                   RatSub(scl_max, scl_min)),
                            rng_min)
             IN  _set_raw(target, Trunc(raw_value), bitarray)

_set_enum(target, value, bitarray) ==
    IF value.type = "int"
    THEN LET HasValue(item) == item.value = Str(value.int)
             item == FindFirst(target.items, HasValue)
             value_item == IF item = << >> THEN _get_rangeitem(target, value.int)
                           ELSE item
         IN  IF value_item # << >>
             THEN _set_raw(target, value.int, bitarray)
             ELSE [err |-> "ValueError", bits |-> bitarray]
    ELSE LET HasDescription(item) == item.description = value.str
             value_item == FindFirst(target.items, HasDescription)
         IN  IF value_item = << >>
             THEN [err |-> "ValueError", bits |-> bitarray]
             ELSE _set_raw(target, ParseInt(value_item[1].value), bitarray)

_set_boolean(target, value, bitarray) ==
    LET offset == ParseInt(target.offset)
    IN  IF offset >= Len(bitarray)
        THEN [err |-> "IndexError", bits |-> bitarray]
        ELSE [err |-> "", bits |-> [bitarray EXCEPT ![offset + 1] = value.bool]]

\* Update as setdefault would do it: a key already present keeps its value
UpdateKeepFirst(output, entry) ==
    IF \E i \in 1..Len(output) : output[i].shortcut = entry.shortcut
    THEN output
    ELSE Append(output, entry)

\* OrderedDict.update with one entry: a key already present keeps its place
\* and takes the new value, a new key goes to the end
Update(output, entry) ==
    IF \E i \in 1..Len(output) : output[i].shortcut = entry.shortcut
    THEN [i \in 1..Len(output) |->
            IF output[i].shortcut = entry.shortcut THEN entry ELSE output[i]]
    ELSE Append(output, entry)

\* the decoder get_values applies to one child element; other tags are skipped
Decode(source, bitarray, status_bits) ==
    IF source.tag = "value" THEN _get_value(source, bitarray)
    ELSE IF source.tag = "enum" THEN _get_enum(source, bitarray)
    ELSE _get_boolean(source, status_bits)

\* the for loop of get_values from child i on; an exception leaves the loop
\* and the call, and nothing is returned
RECURSIVE GetValuesLoop(_, _, _, _, _)
GetValuesLoop(fields, bitarray, status_bits, i, output) ==
    IF i > Len(fields) THEN [err |-> "", output |-> output]
    ELSE IF fields[i].tag \notin {"value", "enum", "status"}
    THEN GetValuesLoop(fields, bitarray, status_bits, i + 1, output)
    ELSE LET got == Decode(fields[i], bitarray, status_bits)
         IN  IF got.err # "" THEN [err |-> got.err, output |-> << >>]
             ELSE GetValuesLoop(fields, bitarray, status_bits, i + 1,
                                Update(output, got.entry))

\* get_values(profile, bitarray, status); output is the OrderedDict in key
\* order, so the returned keys are its shortcuts
get_values(ok, prof, bitarray, status_bits) ==
    IF ~ok \/ prof = << >> THEN [err |-> "", output |-> << >>]
    ELSE GetValuesLoop(prof[1].fields, bitarray, status_bits, 1, << >>)

\* the for loop of set_values from property i on; both lists are written in
\* place, so an exception leaves what was written before it
RECURSIVE SetValuesLoop(_, _, _, _, _)
SetValuesLoop(fields, bitarray, status_bits, properties, i) ==
    IF i > Len(properties)
    THEN [err |-> "", data |-> bitarray, status |-> status_bits]
    ELSE LET HasShortcut(field) == field.shortcut = properties[i].shortcut
             target == FindFirst(fields, HasShortcut)
             value == properties[i].value
         IN  IF target = << >>
             THEN SetValuesLoop(fields, bitarray, status_bits, properties, i + 1)
             ELSE IF target[1].tag = "status"
             THEN LET r == _set_boolean(target[1], value, status_bits)
                  IN  IF r.err # ""
                      THEN [err |-> r.err, data |-> bitarray, status |-> r.bits]
                      ELSE SetValuesLoop(fields, bitarray, r.bits, properties, i + 1)
             ELSE IF target[1].tag \in {"value", "enum"}
             THEN LET r == IF target[1].tag = "value"
                           THEN _set_value(target[1], value, bitarray)
                           ELSE _set_enum(target[1], value, bitarray)
                  IN  IF r.err # ""
                      THEN [err |-> r.err, data |-> r.bits, status |-> status_bits]
                      ELSE SetValuesLoop(fields, r.bits, status_bits, properties, i + 1)
             ELSE SetValuesLoop(fields, bitarray, status_bits, properties, i + 1)

set_values(ok, prof, bitarray, status_bits, properties) ==
    IF ~ok \/ prof = << >>
    THEN [err |-> "", data |-> bitarray, status |-> status_bits]
    ELSE SetValuesLoop(prof[1].fields, bitarray, status_bits, properties, 1)

(***************************************************************************)
(* Profile resolver.                                                       *)
(***************************************************************************)
\* Python truth value of the command argument: None and 0 are false
Truthy(command) == command # << >> /\ command[1] # 0

\* ExplicitCommand without its test for a profile that has no command element
ExplicitCommandUnchecked(prof, command) ==
    LET HasCommand(d) == d.command = <<Str(command[1])>>
    IN  [err |-> "", ret |-> FindFirst(prof.data, HasCommand)]

\* find_profile once the profile is found and the command argument is true
ExplicitCommand(prof, command) ==
    LET IsData(d) == TRUE
        HasCommand(d) == d.command = <<Str(command[1])>>
    IN  IF prof.command = << >>
        THEN [err |-> "", ret |-> FindFirst(prof.data, IsData)]
        ELSE [err |-> "", ret |-> FindFirst(prof.data, HasCommand)]

\* DecodedCommand without its fall back to the first data element
DecodedCommandNoGuess(prof, bitarray) ==
    LET command_value == _get_raw(prof.command[1], bitarray)
        HasCommand(d) == d.command = <<Str(command_value.val)>>
    IN  IF command_value.err # "" THEN [err |-> command_value.err, ret |-> << >>]
        ELSE [err |-> "", ret |-> FindFirst(prof.data, HasCommand)]

\* find_profile when the command argument is false and the profile has a
\* command element: the command is read from the telegram
DecodedCommand(prof, bitarray) ==
    LET command_value == _get_raw(prof.command[1], bitarray)
        IsData(d) == TRUE
        HasCommand(d) == d.command = <<Str(command_value.val)>>
        found_data == FindFirst(prof.data, HasCommand)
    IN  IF command_value.err # "" THEN [err |-> command_value.err, ret |-> << >>]
        ELSE IF found_data # << >> THEN [err |-> "", ret |-> found_data]
        ELSE [err |-> "", ret |-> FindFirst(prof.data, IsData)]

\* find_profile when no command is involved: the optional direction decides
ByDirection(prof, direction) ==
    LET IsData(d) == TRUE
        HasDirection(d) == d.direction = <<Str(direction[1])>>
    IN  IF direction = << >>
        THEN [err |-> "", ret |-> FindFirst(prof.data, IsData)]
        ELSE [err |-> "", ret |-> FindFirst(prof.data, HasDirection)]

find_profile(ok, tele, bitarray, eep_rorg, rorg_func, rorg_type, direction, command) ==
    IF ~ok THEN [err |-> "", ret |-> << >>]
    ELSE IF eep_rorg \notin DOMAIN tele THEN [err |-> "", ret |-> << >>]
    ELSE IF rorg_func \notin DOMAIN tele[eep_rorg] THEN [err |-> "", ret |-> << >>]
    ELSE IF rorg_type \notin DOMAIN tele[eep_rorg][rorg_func]
    THEN [err |-> "", ret |-> << >>]
    ELSE LET prof == tele[eep_rorg][rorg_func][rorg_type]
         IN  IF Truthy(command) THEN ExplicitCommand(prof, command)
             ELSE IF prof.command # << >> THEN DecodedCommand(prof, bitarray)
             ELSE ByDirection(prof, direction)

(***************************************************************************)
(* The bit codec on its own: a caller's bit list, read and written through *)
(* elements of every offset and size.                                      *)
(***************************************************************************)
BitLists(n) == UNION {[1..k -> BOOLEAN] : k \in 0..n}

\* an element carrying the two attributes the codec reads
Located(offset, size) == [offset |-> Str(offset), size |-> Str(size)]

\* the integers written into a field of size bits: those that fit, one too
\* large and one negative
RawValues(size) == (-1)..Pow2(size)

InitCodec ==
    /\ init_ok = TRUE
    /\ telegrams = << >>
    /\ profile = << >>
    /\ data \in BitLists(BitLen)
    /\ status = << >>
    /\ call = [op |-> "none"]

GetRawCall ==
    \E offset \in 0..BitLen, size \in 1..MaxSize :
        LET source == Located(offset, size)
            r == _get_raw(source, data)
        IN  /\ call' = [op |-> "_get_raw", source |-> source, bitarray |-> data,
                        err |-> r.err, val |-> r.val]
            /\ UNCHANGED <<init_ok, telegrams, profile, data, status>>

SetRawCall ==
    \E offset \in 0..BitLen, size \in 1..MaxSize :
      \E raw_value \in RawValues(size) :
        LET target == Located(offset, size)
            r == _set_raw(target, raw_value, data)
        IN  /\ data' = r.bits
            /\ call' = [op |-> "_set_raw", target |-> target, raw_value |-> raw_value,
                        bitarray |-> data, err |-> r.err]
            /\ UNCHANGED <<init_ok, telegrams, profile, status>>

NextCodec == GetRawCall \/ SetRawCall

SpecCodec == InitCodec /\ [][NextCodec]_vars

\* whether the field of element e lies within a list of n bits
Fits(e, n) == ParseInt(e.offset) + ParseInt(e.size) <= n

\* whether Python index i lies in the field of element e
InField(e, i) ==
    /\ ParseInt(e.offset) <= i
    /\ i < ParseInt(e.offset) + ParseInt(e.size)

\* C4: after _set_raw has written an unsigned v < 2^size into a field that
\* lies within the list, _get_raw of that field returns v, the list keeps
\* its length and every bit outside [offset, offset+size) keeps its value.
C4_RoundTripAndFrame ==
    (/\ call.op = "_set_raw"
     /\ Fits(call.target, Len(call.bitarray))
     /\ call.raw_value >= 0
     /\ call.raw_value < Pow2(ParseInt(call.target.size)))
    => /\ call.err = ""
       /\ _get_raw(call.target, data) = [err |-> "", val |-> call.raw_value]
       /\ Len(data) = Len(call.bitarray)
       /\ \A i \in 0..(Len(data) - 1) :
            ~InField(call.target, i) => data[i + 1] = call.bitarray[i + 1]

\* a write of a two-bit or wider value, not at the start of the list, that
\* changed the list
C4_Witness ==
    /\ call.op = "_set_raw"
    /\ Fits(call.target, Len(call.bitarray))
    /\ call.raw_value >= 2
    /\ call.raw_value < Pow2(ParseInt(call.target.size))
    /\ ParseInt(call.target.offset) >= 1
    /\ ParseInt(call.target.offset) + ParseInt(call.target.size) < Len(data)
    /\ data # call.bitarray

\* C5: a read or a write whose offset+size exceeds the length of the list
\* fails, and the failing write leaves the list as it was.
C5_OutOfRangeFails ==
    /\ (call.op = "_get_raw" /\ ~Fits(call.source, Len(call.bitarray)))
       => call.err # ""
    /\ (call.op = "_set_raw" /\ ~Fits(call.target, Len(call.bitarray)))
       => (call.err # "" /\ data = call.bitarray)

(***************************************************************************)
(* The resolver: a registry holding one profile, and a caller resolving    *)
(* telegrams against it.                                                   *)
(***************************************************************************)
MaxVariants == 2   \* most data elements of the profile
DiscLen == 2       \* length of the telegram's data bit list

\* the attribute of a data element: absent, or the text of an integer
OptAttr(S) == {<< >>} \cup {<<Str(n)>> : n \in S}

SeqsUpTo(S, n) == UNION {[1..k -> S] : k \in 0..n}

\* data elements without fields
BareVariants(directions, commands) ==
    [direction : directions, command : commands, fields : {<< >>}]

\* profile elements: without a command element, the data elements differ in
\* their direction; with one, each data element carries a command
ResolveProfiles ==
    [command : {<< >>},
     data : SeqsUpTo(BareVariants(OptAttr({1, 2}), {<< >>}), MaxVariants)]
    \cup
    [command : {<<Located(0, 2)>>, <<Located(1, 1)>>},
     data : SeqsUpTo(BareVariants(OptAttr({1}), OptAttr({0, 1, 2}) \ {<< >>}),
                     MaxVariants)]

\* __load_xml's three-level mapping, holding the profile A5-02-05
Registry(prof) == 165 :> (2 :> (5 :> prof))

\* the triple of the profile, and triples missing at each level
Hit == <<165, 2, 5>>
Misses == {<<166, 2, 5>>, <<165, 3, 5>>, <<165, 2, 6>>}

Requests ==
    [key : {Hit}, direction : {<< >>, <<1>>, <<2>>},
     command : {<< >>, <<0>>, <<1>>, <<3>>}]
    \cup [key : Misses, direction : {<< >>}, command : {<< >>}]

InitResolve ==
    /\ \/ init_ok = TRUE /\ \E prof \in ResolveProfiles : telegrams = Registry(prof)
       \/ init_ok = FALSE /\ telegrams = << >>
    /\ profile = << >>
    /\ data \in [1..DiscLen -> BOOLEAN]
    /\ status = << >>
    /\ call = [op |-> "none"]

FindProfileCall(Reqs) ==
    \E req \in Reqs :
        LET r == find_profile(init_ok, telegrams, data, req.key[1], req.key[2],
                              req.key[3], req.direction, req.command)
        IN  /\ call' = [op |-> "find_profile", bitarray |-> data, key |-> req.key,
                        direction |-> req.direction, command |-> req.command,
                        err |-> r.err, ret |-> r.ret]
            /\ profile' = IF r.err = "" THEN r.ret ELSE profile
            /\ UNCHANGED <<init_ok, telegrams, data, status>>

NextResolve == FindProfileCall(Requests)

SpecResolve == InitResolve /\ [][NextResolve]_vars

\* the last call was find_profile for the triple the registry holds
Resolved == call.op = "find_profile" /\ init_ok /\ call.key = Hit

\* the profile element the registry holds
Catalogued == telegrams[Hit[1]][Hit[2]][Hit[3]]

\* the first element of a sequence, if any
First(seq) == IF seq = << >> THEN << >> ELSE <<seq[1]>>

\* the first element whose index is in S, if any
FirstOf(seq, S) ==
    IF S = {} THEN << >> ELSE <<seq[CHOOSE i \in S : \A j \in S : i <= j]>>

\* the indices of the data elements whose command attribute is the integer c
WithCommand(variants, c) ==
    {i \in 1..Len(variants) :
        variants[i].command # << >> /\ ParseInt(variants[i].command[1]) = c}

\* the indices of the data elements whose direction attribute is the integer d
WithDirection(variants, d) ==
    {i \in 1..Len(variants) :
        variants[i].direction # << >> /\ ParseInt(variants[i].direction[1]) = d}

\* the unsigned integer the size bits from Python index offset on stand for,
\* most significant bit first
RECURSIVE Unsigned(_, _, _)
Unsigned(bits, offset, size) ==
    IF size = 0 THEN 0
    ELSE (IF bits[offset + 1] THEN Pow2(size - 1) ELSE 0)
         + Unsigned(bits, offset + 1, size - 1)

\* C1: with a command element in the profile and any explicit command
\* (0 included), find_profile returns the first data element whose command
\* attribute is that command, and None when there is none.
C1_ExplicitCommandDecides ==
    (Resolved /\ call.command # << >> /\ Catalogued.command # << >>)
    => /\ call.err = ""
       /\ call.ret = FirstOf(Catalogued.data,
                             WithCommand(Catalogued.data, call.command[1]))

\* C2 as claimed, for the commands other than 0 (command 0 is the case of
\* C1): with an explicit command and no command element in the profile,
\* find_profile returns the data element of the requested direction if there
\* is one and the first data element otherwise.
C2_DirectionThenFirst ==
    (/\ Resolved
     /\ call.command # << >>
     /\ call.command[1] # 0
     /\ Catalogued.command = << >>)
    => /\ call.err = ""
       /\ call.ret =
            IF /\ call.direction # << >>
               /\ WithDirection(Catalogued.data, call.direction[1]) # {}
            THEN FirstOf(Catalogued.data,
                         WithDirection(Catalogued.data, call.direction[1]))
            ELSE First(Catalogued.data)

\* C2 as amended: with an explicit non-zero command and no command element
\* in the profile, find_profile returns the first data element whatever the
\* requested direction (None when the profile has no data element).
C2_FirstWhateverDirection ==
    (/\ Resolved
     /\ call.command # << >>
     /\ call.command[1] # 0
     /\ Catalogued.command = << >>)
    => /\ call.err = ""
       /\ call.ret = First(Catalogued.data)

\* direction 2 is requested and a later data element has it, yet the first
\* data element, of another direction, is returned
C2_Witness ==
    /\ Resolved
    /\ call.command = <<1>>
    /\ call.direction = <<2>>
    /\ Catalogued.command = << >>
    /\ WithDirection(Catalogued.data, 2) # {}
    /\ 1 \notin WithDirection(Catalogued.data, 2)
    /\ call.ret = <<Catalogued.data[1]>>

\* C3: with no command argument and a command element in the profile, the
\* command is the unsigned integer at the element's offset and size in the
\* telegram; find_profile returns the first data element with that command,
\* the first data element when none has it, and so never None for a profile
\* with a data element, whatever the requested direction.
C3_DecodedCommandOrFirst ==
    (/\ Resolved
     /\ call.command = << >>
     /\ Catalogued.command # << >>
     /\ Fits(Catalogued.command[1], Len(call.bitarray)))
    => LET raw == Unsigned(call.bitarray,
                           ParseInt(Catalogued.command[1].offset),
                           ParseInt(Catalogued.command[1].size))
           matching == WithCommand(Catalogued.data, raw)
       IN  /\ call.err = ""
           /\ call.ret = IF matching # {} THEN FirstOf(Catalogued.data, matching)
                         ELSE First(Catalogued.data)
           /\ Catalogued.data # << >> => call.ret # << >>

\* the telegram carries command 3, which no data element has, direction 2 is
\* requested, and the first of several data elements is returned
C3_Witness ==
    /\ Resolved
    /\ call.command = << >>
    /\ call.direction = <<2>>
    /\ Catalogued.command # << >>
    /\ Unsigned(call.bitarray, ParseInt(Catalogued.command[1].offset),
                ParseInt(Catalogued.command[1].size)) = 3
    /\ Len(Catalogued.data) >= 2
    /\ Catalogued.data[1] # Catalogued.data[2]
    /\ call.ret = <<Catalogued.data[1]>>

(***************************************************************************)
(* The transcoder: a caller holding a data description and the two bit     *)
(* lists of a telegram, decoding and encoding them.                        *)
(***************************************************************************)
\* child elements of a data element; an attribute an element does not read
\* holds a default
ValueField(shortcut, offset, size, rng_min, rng_max, scl_min, scl_max) ==
    [tag |-> "value", shortcut |-> shortcut, description |-> "value", unit |-> "u",
     offset |-> Str(offset), size |-> Str(size),
     rng_min |-> Str(rng_min), rng_max |-> Str(rng_max),
     scl_min |-> Str(scl_min), scl_max |-> Str(scl_max),
     items |-> << >>, rangeitems |-> << >>]

EnumField(shortcut, offset, size, items, rangeitems) ==
    [tag |-> "enum", shortcut |-> shortcut, description |-> "enum", unit |-> "",
     offset |-> Str(offset), size |-> Str(size),
     rng_min |-> Str(0), rng_max |-> Str(0), scl_min |-> Str(0), scl_max |-> Str(0),
     items |-> items, rangeitems |-> rangeitems]

StatusField(shortcut, offset) ==
    [tag |-> "status", shortcut |-> shortcut, description |-> "status", unit |-> "",
     offset |-> Str(offset), size |-> Str(1),
     rng_min |-> Str(0), rng_max |-> Str(0), scl_min |-> Str(0), scl_max |-> Str(0),
     items |-> << >>, rangeitems |-> << >>]

Item(value, description) == [value |-> Str(value), description |-> description]

RangeItem(start, end, description) ==
    [start |-> start, end |-> end, description |-> description]

\* a data element with the given children
Variant(fields) == [direction |-> << >>, command |-> << >>, fields |-> fields]

\* values a caller passes in properties
IntValue(n) == [type |-> "int", int |-> n]
FloatValue(n, d) == [type |-> "float", float |-> Rat(n, d)]
StrValue(text) == [type |-> "str", str |-> text]
BoolValue(b) == [type |-> "bool", bool |-> b]

\* the child set_values finds for a shortcut, if any
Target(prof, shortcut) ==
    LET HasShortcut(field) == field.shortcut = shortcut
    IN  IF prof = << >> THEN << >> ELSE FindFirst(prof[1].fields, HasShortcut)

\* a caller passes each field a value of the type the field is made for
WellTyped(prof, properties) ==
    \A i \in 1..Len(properties) :
        LET target == Target(prof, properties[i].shortcut)
            type == properties[i].value.type
        IN  target # << >> =>
                \/ target[1].tag = "value" /\ type \in {"int", "float"}
                \/ target[1].tag = "enum" /\ type \in {"int", "str"}
                \/ target[1].tag = "status" /\ type = "bool"

GetValuesCall ==
    LET r == get_values(init_ok, profile, data, status)
    IN  /\ call' = [op |-> "get_values", profile |-> profile, data |-> data,
                    status |-> status, err |-> r.err, output |-> r.output]
        /\ UNCHANGED <<init_ok, telegrams, profile, data, status>>

SetValuesCall(Properties) ==
    \E properties \in Properties :
        /\ WellTyped(profile, properties)
        /\ LET r == set_values(init_ok, profile, data, status, properties)
           IN  /\ data' = r.data
               /\ status' = r.status
               /\ call' = [op |-> "set_values", profile |-> profile, data |-> data,
                           status |-> status, properties |-> properties,
                           err |-> r.err]
        /\ UNCHANGED <<init_ok, telegrams, profile>>

(***************************************************************************)
(* Numeric fields: one value element per data description, over raw ranges *)
(* and scales of both orientations.                                        *)
(***************************************************************************)
NumSize == 2       \* size of the numeric field, in bits
VDen == 2          \* callers pass the multiples of 1/VDen

RangeEnds == {0, 1, Pow2(NumSize) - 1}
ScaleEnds == {-2, 0, 3}

NumericVariants ==
    {Variant(<<ValueField("TMP", 1, NumSize, rng_min, rng_max, scl_min, scl_max)>>) :
        rng_min \in RangeEnds, rng_max \in RangeEnds,
        scl_min \in ScaleEnds, scl_max \in ScaleEnds}

NumericProperties ==
    {<<[shortcut |-> "TMP", value |-> FloatValue(k, VDen)]>> :
        k \in (-2 * VDen - 1)..(3 * VDen + 1)}

InitNumeric ==
    /\ init_ok = TRUE
    /\ telegrams = << >>
    /\ profile \in {<<v>> : v \in NumericVariants}
    /\ data \in {[i \in 1..(NumSize + 2) |-> b] : b \in BOOLEAN}
    /\ status = << >>
    /\ call = [op |-> "none"]

NextNumeric == GetValuesCall \/ SetValuesCall(NumericProperties)

SpecNumeric == InitNumeric /\ [][NextNumeric]_vars

\* p <= q for rationals with positive denominators
RatLeq(p, q) == p[1] * q[2] <= q[1] * p[2]

RatAbs(p) == <<Abs(p[1]), p[2]>>

\* the entry of a decoded output for a shortcut
Entry(output, shortcut) ==
    output[CHOOSE i \in 1..Len(output) : output[i].shortcut = shortcut]

MaxItems == 2      \* most item elements of the enum element

EnumItems == {Item(v, <<"item ", DigitChars[v + 1]>>) : v \in {0, 2, 3}}

EnumRangeItems ==
    {RangeItem(start, end, <<"range ", "{value}">>) :
        start \in OptAttr({1, 2}), end \in OptAttr({1, 3})}

EnumVariants ==
    {Variant(<<EnumField("E", 1, 2, items, rangeitems)>>) :
        items \in SeqsUpTo(EnumItems, MaxItems),
        rangeitems \in SeqsUpTo(EnumRangeItems, 1)}

EnumProperties ==
    {<<[shortcut |-> "E", value |-> IntValue(n)]>> : n \in (-1)..4}
    \cup {<<[shortcut |-> "E", value |-> StrValue(text)]>> :
            text \in {<<"item ", "2">>, <<"range ", "{value}">>}}

InitEnum ==
    /\ init_ok = TRUE
    /\ telegrams = << >>
    /\ profile \in {<<v>> : v \in EnumVariants}
    /\ data \in {[i \in 1..4 |-> b] : b \in BOOLEAN}
    /\ status = << >>
    /\ call = [op |-> "none"]

NextEnum == GetValuesCall \/ SetValuesCall(EnumProperties)

SpecEnum == InitEnum /\ [][NextEnum]_vars

\* whether an enum element declares the integer n: as the value of an item,
\* or within the inclusive start and end of a range item (each -1 if absent)
Declares(field, n) ==
    \/ \E i \in 1..Len(field.items) : ParseInt(field.items[i].value) = n
    \/ \E i \in 1..Len(field.rangeitems) :
            /\ AttrInt(field.rangeitems[i].start, -1) <= n
            /\ n <= AttrInt(field.rangeitems[i].end, -1)

\* C8: set_values with an integer for an enumerated field writes the
\* integer (its low size bits) into the field's bits, and nothing else, if
\* the field declares it as an item value or within a range item; otherwise
\* the call fails with ValueError and the bit list is left as it was.
C8_EnumIntegerAccepted ==
    (/\ call.op = "set_values"
     /\ profile # << >>
     /\ Len(call.properties) = 1
     /\ Target(profile, call.properties[1].shortcut) # << >>
     /\ Target(profile, call.properties[1].shortcut)[1].tag = "enum"
     /\ call.properties[1].value.type = "int"
     /\ Fits(Target(profile, call.properties[1].shortcut)[1], Len(call.data)))
    => LET f == Target(profile, call.properties[1].shortcut)[1]
           n == call.properties[1].value.int
       IN  IF Declares(f, n)
           THEN /\ call.err = ""
                /\ Unsigned(data, ParseInt(f.offset), ParseInt(f.size))
                     = n % Pow2(ParseInt(f.size))
                /\ \A i \in 0..(Len(data) - 1) :
                     ~InField(f, i) => data[i + 1] = call.data[i + 1]
           ELSE /\ call.err = "ValueError"
                /\ data = call.data

\* an integer that no item has, the end of a range item, was accepted and
\* its bits written
C8_Witness ==
    /\ call.op = "set_values"
    /\ call.err = ""
    /\ profile # << >>
    /\ profile[1].fields[1].tag = "enum"
    /\ call.properties[1].value.type = "int"
    /\ call.properties[1].value.int = 3
    /\ \A i \in 1..Len(profile[1].fields[1].items) :
            ParseInt(profile[1].fields[1].items[i].value) # 3
    /\ data # call.data

(***************************************************************************)
(* Data descriptions of several fields, some sharing a shortcut, some      *)
(* failing to decode.                                                      *)
(***************************************************************************)
MaxFields == 2     \* most child elements of the data description

FieldPool ==
    {EnumField("X", 0, 2, <<Item(0, <<"Off">>), Item(1, <<"On">>)>>, << >>),
     ValueField("X", 2, 2, 0, 3, 0, 6),
     ValueField("Y", 0, 2, 1, 1, 0, 6),
     StatusField("X", 0),
     StatusField("X", 1)}

FieldsVariants == {Variant(fields) : fields \in SeqsUpTo(FieldPool, MaxFields)}

FieldsProperties ==
    {<<[shortcut |-> s, value |-> v]>> :
        s \in {"X", "Y"},
        v \in {IntValue(1), IntValue(2), StrValue(<<"On">>),
               BoolValue(TRUE), BoolValue(FALSE)}}
    \cup {<<[shortcut |-> "Z", value |-> IntValue(1)]>>}

InitFields ==
    /\ init_ok = TRUE
    /\ telegrams = << >>
    /\ profile \in {<<v>> : v \in FieldsVariants}
    /\ data \in {[i \in 1..4 |-> b] : b \in BOOLEAN}
    /\ status \in {[i \in 1..2 |-> b] : b \in BOOLEAN}
    /\ call = [op |-> "none"]

NextFields == GetValuesCall \/ SetValuesCall(FieldsProperties)

SpecFields == InitFields /\ [][NextFields]_vars

\* C7: a field of a data description that fails to decode (an enum whose raw
\* value no item and no range item has, a value with range_max = range_min)
\* does not stop get_values: every field that decodes has its entry in the
\* output.
C7_DecodeContinues ==
    (call.op = "get_values" /\ call.profile # << >>)
    => \A i \in 1..Len(call.profile[1].fields) :
            Decode(call.profile[1].fields[i], call.data, call.status).err = ""
            => \E j \in 1..Len(call.output) :
                    call.output[j].shortcut = call.profile[1].fields[i].shortcut

\* the indices of the children with a shortcut
WithShortcut(fields, shortcut) ==
    {i \in 1..Len(fields) : fields[i].shortcut = shortcut}

Lowest(S) == CHOOSE i \in S : \A j \in S : i <= j
Highest(S) == CHOOSE i \in S : \A j \in S : i >= j

\* C10: of several fields with one shortcut, set_values writes the first
\* declared one only: no bit outside that field's bits changes, in either
\* list; and get_values reports, under the shortcut, the last declared one.
C10_FirstWrittenLastRead ==
    /\ (/\ call.op = "set_values"
        /\ call.profile # << >>
        /\ WithShortcut(call.profile[1].fields, call.properties[1].shortcut) # {})
       => LET fields == call.profile[1].fields
              f == fields[Lowest(WithShortcut(fields, call.properties[1].shortcut))]
          IN  IF f.tag = "status"
              THEN /\ data = call.data
                   /\ \A i \in 0..(Len(status) - 1) :
                        ~InField(f, i) => status[i + 1] = call.status[i + 1]
                   /\ call.err = "" =>
                        status[ParseInt(f.offset) + 1] = call.properties[1].value.bool
              ELSE /\ status = call.status
                   /\ \A i \in 0..(Len(data) - 1) :
                        ~InField(f, i) => data[i + 1] = call.data[i + 1]
                   /\ (call.err = "" /\ f.tag = "enum"
                       /\ call.properties[1].value.type = "int") =>
                        Unsigned(data, ParseInt(f.offset), ParseInt(f.size))
                            = call.properties[1].value.int
    /\ (call.op = "get_values" /\ call.profile # << >> /\ call.err = "")
       => LET fields == call.profile[1].fields
          IN  \A i \in 1..Len(fields) :
                Entry(call.output, fields[i].shortcut)
                    = Decode(fields[Highest(WithShortcut(fields, fields[i].shortcut))],
                             call.data, call.status).entry

\* X was encoded as TRUE into the first of two status fields named X, and a
\* decode reports FALSE under X, the bit of the second
C10_Witness ==
    /\ call.op = "set_values"
    /\ call.err = ""
    /\ call.profile = <<Variant(<<StatusField("X", 0), StatusField("X", 1)>>)>>
    /\ call.properties = <<[shortcut |-> "X", value |-> BoolValue(TRUE)]>>
    /\ status = <<TRUE, FALSE>>
    /\ get_values(init_ok, profile, data, status).err = ""
    /\ Entry(get_values(init_ok, profile, data, status).output, "X").value
         = [type |-> "bool", bool |-> FALSE]

(***************************************************************************)
(* A caller's whole use of the interpreter, on the temperature profile     *)
(* A5-02-05 with the raw range 0..255 and the scale -40..0: the profile is *)
(* resolved, then telegrams are decoded and encoded.                       *)
(***************************************************************************)
Temperature == Variant(<<ValueField("TMP", 0, 8, 0, 255, -40, 0)>>)

TemperatureProfile == [command |-> << >>, data |-> <<Temperature>>]

TemperatureRequests ==
    [key : {Hit}, direction : {<< >>, <<1>>}, command : {<< >>, <<1>>}]
    \cup [key : Misses, direction : {<< >>}, command : {<< >>}]

TemperatureProperties ==
    {<<[shortcut |-> "TMP", value |-> IntValue(n)]>> : n \in {-40, -20, 0}}
    \cup {<<[shortcut |-> "HUM", value |-> IntValue(1)],
            [shortcut |-> "TMP", value |-> FloatValue(-1, 2)]>>}

\* __init__: the protocol file was loaded, or could not be
Init ==
    /\ \/ init_ok = TRUE /\ telegrams = Registry(TemperatureProfile)
       \/ init_ok = FALSE /\ telegrams = << >>
    /\ profile = << >>
    /\ data \in [1..8 -> BOOLEAN]
    /\ status = [i \in 1..8 |-> FALSE]
    /\ call = [op |-> "none"]

Next ==
    \/ FindProfileCall(TemperatureRequests)
    \/ GetValuesCall
    \/ SetValuesCall(TemperatureProperties)

Spec == Init /\ [][Next]_vars

AllBits(b) == [i \in 1..8 |-> b]

\* C9 as claimed: with range min 0, max 255 and scale min -40, max 0,
\* get_values decodes the byte 0xFF to -40 and the byte 0x00 to 0.
C9_AsClaimed ==
    (call.op = "get_values" /\ init_ok /\ call.profile = <<Temperature>>)
    => /\ call.data = AllBits(TRUE)
            => /\ call.err = ""
               /\ Entry(call.output, "TMP").value.float = <<-40, 1>>
       /\ call.data = AllBits(FALSE)
            => /\ call.err = ""
               /\ Entry(call.output, "TMP").value.float = <<0, 1>>

\* C9 as amended: with range min 0, max 255 and scale min -40, max 0,
\* get_values decodes the byte 0xFF (raw 255) to 0 and the byte 0x00 (raw 0)
\* to -40.
C9_Decoded ==
    (call.op = "get_values" /\ init_ok /\ call.profile = <<Temperature>>)
    => /\ call.data = AllBits(TRUE)
            => /\ call.err = ""
               /\ Entry(call.output, "TMP").raw_value = 255
               /\ Entry(call.output, "TMP").value.float = <<0, 1>>
       /\ call.data = AllBits(FALSE)
            => /\ call.err = ""
               /\ Entry(call.output, "TMP").raw_value = 0
               /\ Entry(call.output, "TMP").value.float = <<-40, 1>>

\* the byte 0xFF was decoded with the resolved profile
C9_Witness ==
    /\ call.op = "get_values"
    /\ init_ok
    /\ call.profile = <<Temperature>>
    /\ call.data = AllBits(TRUE)
    /\ Len(call.output) = 1
    /\ call.output[1].raw_value = 255

=============================================================================
